---- MODULE Spec2Model ----
(***************************************************************************)
(* Model of the orbit-camera viewer: the input router                      *)
(* (camera_controller.rs, CameraController), the orbit camera it drives    *)
(* (orbit_camera::OrbitCamera) and the event dispatch of Application::run  *)
(* (main.rs).                                                              *)
(*                                                                         *)
(* Numbers.  The program computes in f32.  The model computes in decimal   *)
(* fixed point: a camera quantity (distance, angle in radians, world       *)
(* coordinate, speed) is an integer count of 1/FixedOne.  Raw device       *)
(* deltas (pixels, scroll lines) are whole numbers, which `as f32`         *)
(* represents exactly, so a product delta * speed is an integer product.   *)
(***************************************************************************)
EXTENDS Integers, Sequences, FiniteSets, TLC

VARIABLES
    camera_controller,  \* Application.camera_controller : CameraController
    camera,             \* Application.camera : OrbitCamera
    button_held,        \* the device: primary mouse button is physically down
    shift_held,         \* the device: ShiftLeft is physically down
    calls,              \* the camera / window methods the last handler invoked, in order
    hist,               \* the last events dispatched, each with the router flags before it
    steps,              \* number of events dispatched so far
    camera_uniform,     \* camera_uniform : camera::CameraUniform
    camera_buffer,      \* Application.camera_buffer: the uniform contents uploaded to the GPU
    size,               \* Application.size (width, height)
    config,             \* Application.config (width, height of the surface configuration)
    depth_texture,      \* Application.depth_texture (its width, height)
    redraw_pending,     \* the window: a requested redraw not yet delivered
    rendered,           \* the uniform contents the last render() read, as an Option
    exited,             \* elwt.exit() was called
    fly_camera,         \* camera::Camera of the fly-camera build
    fly_controller,     \* camera::CameraController of the fly-camera build
    debug,              \* Application.debug
    mouse_pressed,      \* Application.mouse_pressed
    window_held         \* the window: the keys and buttons it has reported down

routervars == <<camera_controller, camera, button_held, shift_held>>
surfacevars == <<size, config, depth_texture>>
framevars == <<camera_uniform, camera_buffer, rendered, exited>>
flyvars == <<fly_camera, fly_controller>>
inputvars == <<debug, mouse_pressed, window_held>>
vars ==
    <<routervars, calls, hist, steps, surfacevars, framevars, redraw_pending,
      flyvars, inputvars>>

(***************************************************************************)
(* Bounds of the exploration.                                              *)
(***************************************************************************)
MaxSteps == 4
HistLen == 3

(***************************************************************************)
(* Fixed point.                                                            *)
(***************************************************************************)
FixedOne == 10000

Abs(x) == IF x < 0 THEN -x ELSE x
Sgn(x) == IF x < 0 THEN -1 ELSE 1
\* division rounding toward zero, and the product of two fixed-point numbers
Quot(a, b) == Sgn(a) * Sgn(b) * (Abs(a) \div Abs(b))
FMul(a, b) == Quot(a * b, FixedOne)
Max2(a, b) == IF a > b THEN a ELSE b
Min2(a, b) == IF a < b THEN a ELSE b
\* f32::clamp(self, min, max)
Clamp(x, lo, hi) == Max2(lo, Min2(x, hi))

Pi == 31416
HalfPi == 15708

\* sine of a fixed-point angle: reduce to [-pi/2, pi/2], then the series to x^7
SinReduced(x) ==
    LET x2 == FMul(x, x)
        t3 == Quot(FMul(x, x2), 6)
        t5 == Quot(FMul(t3, x2), 20)
        t7 == Quot(FMul(t5, x2), 42)
    IN  x - t3 + t5 - t7
Sin(a) ==
    LET r == ((a + Pi) % (2 * Pi)) - Pi        \* in [-pi, pi)
        f == IF r > HalfPi THEN Pi - r
             ELSE IF r < -HalfPi THEN -Pi - r
             ELSE r
    IN  SinReduced(f)
Cos(a) == Sin(a + HalfPi)

(***************************************************************************)
(* Option<f32>: None is the empty tuple, Some(v) the tuple <<v>>.          *)
(***************************************************************************)
None == <<>>
Some(v) == <<v>>
IsSome(o) == Len(o) = 1
UnwrapOr(o, d) == IF IsSome(o) THEN o[1] ELSE d

(***************************************************************************)
(* orbit_camera::OrbitCamera.  Its file is not among the sources; the      *)
(* operations below follow the design document (sections 3, 4.1, 4.2).     *)
(***************************************************************************)
\* the smallest positive value: the implicit floor of an unbounded distance
Epsilon == 1
\* the safety margin keeping pitch off the poles (0.01 rad)
PitchEps == 100

\* OrbitCameraBounds with every bound absent
DefaultBounds ==
    [min_distance |-> None, max_distance |-> None,
     min_pitch |-> None, max_pitch |-> None]

\* the projection parameters of the orbit camera: fovy in degrees, clip planes
OrbitFovy == 450000
OrbitZnear == 1000
OrbitZfar == 100000

\* OrbitCamera::new(distance, pitch, yaw, target, aspect)
OrbitCameraNew(distance, pitch, yaw, target, aspect) ==
    [distance |-> distance, pitch |-> pitch, yaw |-> yaw, target |-> target,
     bounds |-> DefaultBounds,
     aspect |-> aspect, fovy |-> OrbitFovy, znear |-> OrbitZnear, zfar |-> OrbitZfar]

\* add_distance(delta): distance += delta, clamped to the configured bounds,
\* with a positive floor when min_distance is absent
add_distance(cam, delta) ==
    LET d  == cam.distance + delta
        lo == UnwrapOr(cam.bounds.min_distance, Epsilon)
        d1 == Max2(d, lo)
        d2 == IF IsSome(cam.bounds.max_distance)
              THEN Min2(d1, cam.bounds.max_distance[1]) ELSE d1
    IN  [cam EXCEPT !.distance = d2]

\* add_yaw(delta): yaw += delta, never clamped
add_yaw(cam, delta) == [cam EXCEPT !.yaw = cam.yaw + delta]

\* add_pitch(delta): pitch += delta, clamped to the configured bounds
\* intersected with the safety interval around (-pi/2, pi/2)
add_pitch(cam, delta) ==
    LET p  == cam.pitch + delta
        lo == Max2(UnwrapOr(cam.bounds.min_pitch, -HalfPi + PitchEps), -HalfPi + PitchEps)
        hi == Min2(UnwrapOr(cam.bounds.max_pitch, HalfPi - PitchEps), HalfPi - PitchEps)
    IN  [cam EXCEPT !.pitch = Clamp(p, lo, hi)]

\* 3-vectors
VAdd(u, v) == <<u[1] + v[1], u[2] + v[2], u[3] + v[3]>>
VScale(u, k) == <<FMul(u[1], k), FMul(u[2], k), FMul(u[3], k)>>
Cross(u, v) ==
    <<FMul(u[2], v[3]) - FMul(u[3], v[2]),
      FMul(u[3], v[1]) - FMul(u[1], v[3]),
      FMul(u[1], v[2]) - FMul(u[2], v[1])>>
WorldUp == <<0, FixedOne, 0>>

\* the unit offset from target to eye, from the spherical coordinates
EyeDir(cam) ==
    <<FMul(Cos(cam.pitch), Sin(cam.yaw)),
      Sin(cam.pitch),
      FMul(Cos(cam.pitch), Cos(cam.yaw))>>
\* the unit vector from eye to target
Forward(cam) == LET e == EyeDir(cam) IN <<-e[1], -e[2], -e[3]>>

\* pan((dx, dy)): translate target in the camera's local plane, using the
\* current orientation: right = forward x world_up, up = right x forward
pan(cam, delta) ==
    LET forward == Forward(cam)
        right   == Cross(forward, WorldUp)
        up      == Cross(right, forward)
    IN  [cam EXCEPT !.target =
            VAdd(cam.target, VAdd(VScale(right, delta[1]), VScale(up, delta[2])))]

(***************************************************************************)
(* cgmath, as camera.rs uses it.  A Vector3 / Point3 is a triple, a        *)
(* Matrix4 the tuple of its four columns (cgmath is column-major), each a  *)
(* 4-tuple; m[c][r] is column c, row r.                                    *)
(***************************************************************************)
FDiv(a, b) == Quot(a * FixedOne, b)

\* floor of the square root, by bisection
RECURSIVE SqrtBetween(_, _, _)
SqrtBetween(n, lo, hi) ==
    IF hi - lo <= 1 THEN lo
    ELSE LET mid == (lo + hi) \div 2
         IN  IF mid * mid <= n THEN SqrtBetween(n, mid, hi)
             ELSE SqrtBetween(n, lo, mid)
ISqrt(n) == SqrtBetween(n, 0, 46341)

VSub(u, v) == <<u[1] - v[1], u[2] - v[2], u[3] - v[3]>>
Dot(u, v) == FMul(u[1], v[1]) + FMul(u[2], v[2]) + FMul(u[3], v[3])
\* InnerSpace::magnitude and InnerSpace::normalize
Magnitude(u) == ISqrt(u[1] * u[1] + u[2] * u[2] + u[3] * u[3])
Normalize(u) ==
    LET m == Magnitude(u)
    IN  <<FDiv(u[1], m), FDiv(u[2], m), FDiv(u[3], m)>>

Identity4 ==
    << <<FixedOne, 0, 0, 0>>, <<0, FixedOne, 0, 0>>,
       <<0, 0, FixedOne, 0>>, <<0, 0, 0, FixedOne>> >>

\* Matrix4 * Matrix4
MatMul(m, n) ==
    [c \in 1..4 |->
        [r \in 1..4 |->
            FMul(m[1][r], n[c][1]) + FMul(m[2][r], n[c][2])
            + FMul(m[3][r], n[c][3]) + FMul(m[4][r], n[c][4])]]

\* Matrix4::look_at_rh(eye, center, up)
LookAtRh(eye, center, up) ==
    LET f == Normalize(VSub(center, eye))
        sv == Normalize(Cross(f, up))
        u == Cross(sv, f)
    IN  << <<sv[1], u[1], -f[1], 0>>,
           <<sv[2], u[2], -f[2], 0>>,
           <<sv[3], u[3], -f[3], 0>>,
           <<-Dot(eye, sv), -Dot(eye, u), Dot(eye, f), FixedOne>> >>

\* half of an angle given in degrees, in radians
HalfAngle(deg) == Quot(Quot(deg, 100) * Pi, 36000)
Cot(x) == FDiv(Cos(x), Sin(x))

\* cgmath::perspective(Deg(fovy), aspect, near, far)
Perspective(fovy, aspect, near, far) ==
    LET f == Cot(HalfAngle(fovy))
    IN  << <<FDiv(f, aspect), 0, 0, 0>>,
           <<0, f, 0, 0>>,
           <<0, 0, FDiv(far + near, near - far), -FixedOne>>,
           <<0, 0, FDiv(2 * FMul(far, near), near - far), 0>> >>

(***************************************************************************)
(* camera.rs: Camera and CameraUniform.                                    *)
(***************************************************************************)
\* OPENGL_TO_WGPU_MATRIX, the arguments of Matrix4::new in column order
OPENGL_TO_WGPU_MATRIX ==
    << <<FixedOne, 0, 0, 0>>,
       <<0, FixedOne, 0, 0>>,
       <<0, 0, FixedOne \div 2, FixedOne \div 2>>,
       <<0, 0, 0, FixedOne>> >>

\* Camera::build_view_projection_matrix(&self)
build_view_projection_matrix(cam) ==
    LET view == LookAtRh(cam.eye, cam.target, cam.up)
        proj == Perspective(cam.fovy, cam.aspect, cam.znear, cam.zfar)
    IN  MatMul(MatMul(OPENGL_TO_WGPU_MATRIX, proj), view)

\* Point3::to_homogeneous
ToHomogeneous(pt) == <<pt[1], pt[2], pt[3], FixedOne>>

\* CameraUniform::new()
CameraUniformNew ==
    [view_position |-> <<0, 0, 0, 0>>, view_proj |-> Identity4]

\* faulty variant: the new matrix is multiplied into the stored one
update_view_proj_accumulating(self, cam) ==
    [self EXCEPT !.view_position = ToHomogeneous(cam.eye),
                 !.view_proj = MatMul(build_view_projection_matrix(cam),
                                      self.view_proj)]

\* faulty variant: only the matrix is written
update_view_proj_keeps_position(self, cam) ==
    [self EXCEPT !.view_proj = build_view_projection_matrix(cam)]

\* CameraUniform::update_view_proj(&mut self, camera)
update_view_proj(self, cam) ==
    [self EXCEPT !.view_position = ToHomogeneous(cam.eye),
                 !.view_proj = build_view_projection_matrix(cam)]

(***************************************************************************)
(* orbit_camera::OrbitCamera, projection (design document, section 4.2).   *)
(***************************************************************************)
\* width as f32 / height as f32
AspectOf(width, height) == Quot(width * FixedOne, height)

\* resize_projection(width, height): aspect = width / height, and nothing
\* when height is 0
resize_projection(cam, width, height) ==
    IF height = 0 THEN cam
    ELSE [cam EXCEPT !.aspect = AspectOf(width, height)]

\* eye = target + offset of the spherical coordinates
OrbitEye(cam) ==
    LET e == EyeDir(cam)
    IN  VAdd(cam.target, <<FMul(e[1], cam.distance), FMul(e[2], cam.distance),
                           FMul(e[3], cam.distance)>>)

\* the value standing for a matrix with non-finite entries (aspect = 0)
F32Infinity == 1073741824
NonFinite4 == [c \in 1..4 |-> [r \in 1..4 |-> F32Infinity]]

\* OrbitCamera::build_view_projection_matrix(): conversion * projection * view
orbit_view_projection_matrix(cam) ==
    IF cam.aspect = 0 THEN NonFinite4
    ELSE LET view == LookAtRh(OrbitEye(cam), cam.target, WorldUp)
             proj == Perspective(cam.fovy, cam.aspect, cam.znear, cam.zfar)
         IN  MatMul(MatMul(OPENGL_TO_WGPU_MATRIX, proj), view)

\* CameraUniform::update_view_proj(&mut self, camera: &OrbitCamera)
orbit_update_view_proj(self, cam) ==
    [self EXCEPT !.view_position = ToHomogeneous(OrbitEye(cam)),
                 !.view_proj = orbit_view_projection_matrix(cam)]

(***************************************************************************)
(* Events.                                                                 *)
(***************************************************************************)
\* the primary (left) mouse button of DeviceEvent::Button, non-macos build
PrimaryButton == 1
OtherButton == 3
ElementState == {"Pressed", "Released"}

\* whole-number deltas the devices report
ScrollLines == {-2, 3}
ScrollPixels == {50}
MotionDeltas == {<<0, 0>>, <<10, 0>>, <<-3000, 700>>}

ButtonEvent(button, state) == [type |-> "Button", button |-> button, state |-> state]
MouseWheelEvent(kind, scroll) ==
    [type |-> "MouseWheel", delta |-> [kind |-> kind, scroll |-> scroll]]
MouseMotionEvent(delta) == [type |-> "MouseMotion", motion |-> delta]
\* a DeviceEvent variant the router has no arm for
AddedEvent == [type |-> "Added"]

\* winit KeyEvent: physical key, Pressed/Released, and the auto-repeat mark
KeyEventOf(key, state, repeat) ==
    [physical_key |-> key, state |-> state, repeat |-> repeat]

(***************************************************************************)
(* camera_controller::CameraController.                                    *)
(***************************************************************************)
CameraControllerNew(rotate_speed, zoom_speed) ==
    [rotate_speed |-> rotate_speed, zoom_speed |-> zoom_speed,
     is_drag_rotate |-> FALSE, is_pan |-> FALSE]

\* a call the handler makes on the camera or the window
Call(op, args) == [op |-> op, args |-> args]

\* faulty variant: the press test inverted
OnButtonInverted(self, state) ==
    LET is_pressed == (state = "Released")
    IN  IF self.is_pan
        THEN [self EXCEPT !.is_pan = is_pressed]
        ELSE [self EXCEPT !.is_drag_rotate = is_pressed]

\* faulty variant: the button always drives is_drag_rotate
OnButtonNoPanCheck(self, state) ==
    LET is_pressed == (state = "Pressed")
    IN  [self EXCEPT !.is_drag_rotate = is_pressed]

\* the DeviceEvent::Button arm for the primary button
OnButton(self, state) ==
    LET is_pressed == (state = "Pressed")
    IN  IF self.is_pan
        THEN [self EXCEPT !.is_pan = is_pressed]
        ELSE [self EXCEPT !.is_drag_rotate = is_pressed]

\* faulty variant: the negation of the scroll amount dropped
ScrollAmountNotNegated(delta) ==
    IF delta.kind = "LineDelta" THEN delta.scroll * 1 ELSE delta.scroll

\* scroll_amount of the DeviceEvent::MouseWheel arm
ScrollAmount(delta) ==
    -(IF delta.kind = "LineDelta" THEN delta.scroll * 1 ELSE delta.scroll)

\* faulty variant: the zoom does not ask for a new frame
OnMouseWheelNoRedraw(self, delta) ==
    << Call("add_distance", <<ScrollAmount(delta) * self.zoom_speed>>) >>

\* the calls of the DeviceEvent::MouseWheel arm
OnMouseWheel(self, delta) ==
    << Call("add_distance", <<ScrollAmount(delta) * self.zoom_speed>>),
       Call("request_redraw", <<>>) >>

\* faulty variant: yaw follows the horizontal delta with the wrong sign
OnMouseMotionYawSign(self, delta) ==
    IF self.is_drag_rotate
    THEN << Call("add_yaw", <<delta[1] * self.rotate_speed>>),
            Call("add_pitch", <<delta[2] * self.rotate_speed>>),
            Call("request_redraw", <<>>) >>
    ELSE IF self.is_pan
    THEN << Call("pan", <<delta[1] * self.rotate_speed, delta[2] * self.rotate_speed>>),
            Call("request_redraw", <<>>) >>
    ELSE << >>

\* faulty variant: the pan branch also turns the camera
OnMouseMotionPanTurns(self, delta) ==
    IF self.is_drag_rotate
    THEN << Call("add_yaw", <<(-delta[1]) * self.rotate_speed>>),
            Call("add_pitch", <<delta[2] * self.rotate_speed>>),
            Call("request_redraw", <<>>) >>
    ELSE IF self.is_pan
    THEN << Call("add_yaw", <<(-delta[1]) * self.rotate_speed>>),
            Call("pan", <<delta[1] * self.rotate_speed, delta[2] * self.rotate_speed>>),
            Call("request_redraw", <<>>) >>
    ELSE << >>

\* faulty variant: a redraw is requested for every motion
OnMouseMotionAlwaysRedraw(self, delta) ==
    IF self.is_drag_rotate
    THEN << Call("add_yaw", <<(-delta[1]) * self.rotate_speed>>),
            Call("add_pitch", <<delta[2] * self.rotate_speed>>),
            Call("request_redraw", <<>>) >>
    ELSE IF self.is_pan
    THEN << Call("pan", <<delta[1] * self.rotate_speed, delta[2] * self.rotate_speed>>),
            Call("request_redraw", <<>>) >>
    ELSE << Call("request_redraw", <<>>) >>

\* faulty variant: the two axes of the delta exchanged in the rotate branch
OnMouseMotionAxesSwapped(self, delta) ==
    IF self.is_drag_rotate
    THEN << Call("add_yaw", <<(-delta[2]) * self.rotate_speed>>),
            Call("add_pitch", <<delta[1] * self.rotate_speed>>),
            Call("request_redraw", <<>>) >>
    ELSE IF self.is_pan
    THEN << Call("pan", <<delta[1] * self.rotate_speed, delta[2] * self.rotate_speed>>),
            Call("request_redraw", <<>>) >>
    ELSE << >>

\* the calls of the DeviceEvent::MouseMotion arm
OnMouseMotion(self, delta) ==
    IF self.is_drag_rotate
    THEN << Call("add_yaw", <<(-delta[1]) * self.rotate_speed>>),
            Call("add_pitch", <<delta[2] * self.rotate_speed>>),
            Call("request_redraw", <<>>) >>
    ELSE IF self.is_pan
    THEN << Call("pan", <<delta[1] * self.rotate_speed, delta[2] * self.rotate_speed>>),
            Call("request_redraw", <<>>) >>
    ELSE << >>

\* faulty variant: the Button arm matches every button
process_events_any_button(self, event) ==
    IF event.type = "Button"
    THEN [self |-> OnButton(self, event.state), calls |-> << >>]
    ELSE IF event.type = "MouseWheel"
    THEN [self |-> self, calls |-> OnMouseWheel(self, event.delta)]
    ELSE IF event.type = "MouseMotion"
    THEN [self |-> self, calls |-> OnMouseMotion(self, event.motion)]
    ELSE [self |-> self, calls |-> << >>]

\* process_events(&mut self, event, window, camera): the router after the
\* event and the calls made on camera and window
process_events(self, event) ==
    IF event.type = "Button" /\ event.button = PrimaryButton
    THEN [self |-> OnButton(self, event.state), calls |-> << >>]
    ELSE IF event.type = "MouseWheel"
    THEN [self |-> self, calls |-> OnMouseWheel(self, event.delta)]
    ELSE IF event.type = "MouseMotion"
    THEN [self |-> self, calls |-> OnMouseMotion(self, event.motion)]
    ELSE [self |-> self, calls |-> << >>]

\* faulty variant: the key code is not matched
process_keyed_events_any_key(self, event) ==
    LET is_pressed == (event.state = "Pressed")
    IN  [self EXCEPT !.is_pan = is_pressed]

\* process_keyed_events(&mut self, event)
process_keyed_events(self, event) ==
    IF event.physical_key = "ShiftLeft"
    THEN LET is_pressed == (event.state = "Pressed")
         IN  [self EXCEPT !.is_pan = is_pressed]
    ELSE self

\* the effect of one call on the camera (request_redraw is the window's)
ApplyCall(cam, c) ==
    IF c.op = "add_distance" THEN add_distance(cam, c.args[1])
    ELSE IF c.op = "add_yaw" THEN add_yaw(cam, c.args[1])
    ELSE IF c.op = "add_pitch" THEN add_pitch(cam, c.args[1])
    ELSE IF c.op = "pan" THEN pan(cam, c.args)
    ELSE cam

\* window.request_redraw() is among the calls
RequestsRedraw(cs) == \E i \in 1..Len(cs) : cs[i].op = "request_redraw"

RECURSIVE ApplyCalls(_, _)
ApplyCalls(cam, cs) ==
    IF cs = << >> THEN cam
    ELSE ApplyCalls(ApplyCall(cam, Head(cs)), Tail(cs))

(***************************************************************************)
(* Application (main.rs).                                                  *)
(***************************************************************************)
RotateSpeed == 25
ZoomSpeed == 1000
InitialDistance == 20000
MinDistance == 11000

\* the inner size of the window at construction
InitialWidth == 1280
InitialHeight == 720
InitSize == <<InitialWidth, InitialHeight>>

\* faulty variant: the minimum distance is never configured
InitCameraNoMinDistance ==
    OrbitCameraNew(InitialDistance, 0, 0, <<0, 0, 0>>, AspectOf(InitSize[1], InitSize[2]))

\* Application::new: the camera and the router
InitCamera ==
    [OrbitCameraNew(InitialDistance, 0, 0, <<0, 0, 0>>, AspectOf(InitSize[1], InitSize[2]))
        EXCEPT !.bounds.min_distance = Some(MinDistance)]
InitController == CameraControllerNew(RotateSpeed, ZoomSpeed)

\* the record kept of a dispatched event: the event and the flags before it
Entry(event) ==
    [event |-> event,
     is_drag_rotate |-> camera_controller.is_drag_rotate,
     is_pan |-> camera_controller.is_pan]
Push(h, e) ==
    LET a == Append(h, e)
    IN  IF Len(a) > HistLen THEN Tail(a) ELSE a

\* the fly-camera build is not running in the orbit-camera application
NoFly == [absent |-> TRUE]

Init ==
    /\ camera_controller = InitController
    /\ camera = InitCamera
    /\ button_held = FALSE
    /\ shift_held = FALSE
    /\ calls = << >>
    /\ hist = << >>
    /\ steps = 0
    /\ size = InitSize
    /\ config = InitSize
    /\ depth_texture = InitSize
    /\ camera_uniform = orbit_update_view_proj(CameraUniformNew, InitCamera)
    /\ camera_buffer = camera_uniform
    /\ rendered = None
    /\ redraw_pending = TRUE
    /\ exited = FALSE
    /\ fly_camera = NoFly
    /\ fly_controller = NoFly
    /\ debug = FALSE
    /\ mouse_pressed = FALSE
    /\ window_held = {}

\* Event::DeviceEvent in Application::run
DeviceEvent(event) ==
    /\ steps < MaxSteps
    /\ ~exited
    /\ LET r == process_events(camera_controller, event)
       IN  /\ camera_controller' = r.self
           /\ camera' = ApplyCalls(camera, r.calls)
           /\ calls' = r.calls
           /\ redraw_pending' = (redraw_pending \/ RequestsRedraw(r.calls))
    /\ hist' = Push(hist, Entry(event))
    /\ steps' = steps + 1
    /\ UNCHANGED <<surfacevars, framevars, flyvars, inputvars>>

\* WindowEvent::KeyboardInput in Application::run, for a key that input()
\* does not consume and that is not Escape
KeyboardInput(event) ==
    /\ steps < MaxSteps
    /\ ~exited
    /\ camera_controller' = process_keyed_events(camera_controller, event)
    /\ calls' = << >>
    /\ hist' = Push(hist, Entry([type |-> "KeyboardInput", key |-> event]))
    /\ steps' = steps + 1
    /\ UNCHANGED <<camera, surfacevars, framevars, redraw_pending, flyvars, inputvars>>

\* the devices: a button or key is released only while down; a held key
\* auto-repeats its press
PrimaryButtonInput ==
    \E state \in ElementState :
        /\ button_held = (state = "Released")
        /\ button_held' = (state = "Pressed")
        /\ DeviceEvent(ButtonEvent(PrimaryButton, state))
        /\ UNCHANGED shift_held

OtherButtonInput ==
    \E state \in ElementState :
        /\ DeviceEvent(ButtonEvent(OtherButton, state))
        /\ UNCHANGED <<button_held, shift_held>>

MouseWheelInput ==
    \E delta \in ({"LineDelta"} \X ScrollLines) \cup ({"PixelDelta"} \X ScrollPixels) :
        /\ DeviceEvent(MouseWheelEvent(delta[1], delta[2]))
        /\ UNCHANGED <<button_held, shift_held>>

MouseMotionInput ==
    \E delta \in MotionDeltas :
        /\ DeviceEvent(MouseMotionEvent(delta))
        /\ UNCHANGED <<button_held, shift_held>>

OtherDeviceInput ==
    /\ DeviceEvent(AddedEvent)
    /\ UNCHANGED <<button_held, shift_held>>

ShiftInput ==
    \E state \in ElementState :
        /\ state = "Released" => shift_held
        /\ shift_held' = (state = "Pressed")
        /\ KeyboardInput(KeyEventOf("ShiftLeft", state, shift_held /\ state = "Pressed"))
        /\ UNCHANGED button_held

OtherKeyInput ==
    \E state \in ElementState :
        /\ KeyboardInput(KeyEventOf("KeyA", state, FALSE))
        /\ UNCHANGED <<button_held, shift_held>>

Next ==
    \/ PrimaryButtonInput
    \/ OtherButtonInput
    \/ MouseWheelInput
    \/ MouseMotionInput
    \/ OtherDeviceInput
    \/ ShiftInput
    \/ OtherKeyInput

Spec == Init /\ [][Next]_vars

(***************************************************************************)
(* Application: resize, update, render and the RedrawRequested handler.    *)
(***************************************************************************)
\* sizes a WindowEvent::Resized reports
ResizeSizes == {<<800, 600>>, <<0, 600>>, <<800, 0>>, <<0, 0>>}
\* what render() returns: Ok or the SurfaceError of get_current_texture
RenderResults == {"Ok", "Lost", "OutOfMemory", "Timeout"}

\* faulty variant: the projection is resized with the two sides exchanged
resize_sides_swapped(app, new_size) ==
    LET ok == new_size[1] > 0 /\ new_size[2] > 0
        cfg == IF ok THEN new_size ELSE app.config
    IN  [size |-> IF ok THEN new_size ELSE app.size,
         config |-> cfg,
         camera |-> resize_projection(app.camera, new_size[2], new_size[1]),
         depth_texture |-> cfg]

\* faulty variant: the size and the configuration are written unguarded
resize_unguarded(app, new_size) ==
    [size |-> new_size,
     config |-> new_size,
     camera |-> resize_projection(app.camera, new_size[1], new_size[2]),
     depth_texture |-> new_size]

\* Application::resize(new_size) on the fields it touches; it ends with
\* window.request_redraw()
resize(app, new_size) ==
    LET ok == new_size[1] > 0 /\ new_size[2] > 0
        cfg == IF ok THEN new_size ELSE app.config
    IN  [size |-> IF ok THEN new_size ELSE app.size,
         config |-> cfg,
         camera |-> resize_projection(app.camera, new_size[1], new_size[2]),
         depth_texture |-> cfg]

\* the fields of the Application that resize reads and writes
App == [size |-> size, config |-> config, camera |-> camera,
        depth_texture |-> depth_texture]

\* faulty variant: the uniform is recomputed but not uploaded
update_no_upload(uniform, buffer, cam) ==
    [camera_uniform |-> orbit_update_view_proj(uniform, cam),
     camera_buffer |-> buffer]

\* Application::update(): recompute the uniform, write it to the buffer
update(uniform, buffer, cam) ==
    LET u == orbit_update_view_proj(uniform, cam)
    IN  [camera_uniform |-> u, camera_buffer |-> u]

\* WindowEvent::Resized in Application::run
Resized(new_size) ==
    /\ steps < MaxSteps
    /\ ~exited
    /\ LET a == resize(App, new_size)
       IN  /\ size' = a.size
           /\ config' = a.config
           /\ camera' = a.camera
           /\ depth_texture' = a.depth_texture
    /\ redraw_pending' = TRUE
    /\ calls' = << Call("resize", new_size), Call("request_redraw", <<>>) >>
    /\ hist' = Push(hist, Entry([type |-> "Resized", size |-> new_size]))
    /\ steps' = steps + 1
    /\ UNCHANGED <<camera_controller, button_held, shift_held, framevars, flyvars,
                   inputvars>>

\* the body of the RedrawRequested arm in Application::run: update(),
\* render(), then the match on the result of render()
RedrawHandler(result) ==
    /\ ~exited
    /\ LET up == update(camera_uniform, camera_buffer, camera)
           a  == IF result = "Lost" THEN resize(App, size) ELSE App
       IN  /\ camera_uniform' = up.camera_uniform
           /\ camera_buffer' = up.camera_buffer
           /\ rendered' = IF result = "Ok" THEN Some(up.camera_buffer) ELSE rendered
           /\ size' = a.size
           /\ config' = a.config
           /\ camera' = a.camera
           /\ depth_texture' = a.depth_texture
    /\ redraw_pending' = (result = "Lost")
    /\ exited' = (result = "OutOfMemory")
    /\ calls' = << Call("update", <<>>), Call("render", <<result>>) >>
                 \o (IF result = "Lost"
                     THEN << Call("resize", size), Call("request_redraw", <<>>) >>
                     ELSE IF result = "OutOfMemory" THEN << Call("exit", <<>>) >>
                     ELSE << >>)
    /\ hist' = Push(hist, Entry([type |-> "RedrawRequested"]))
    /\ UNCHANGED <<camera_controller, button_held, shift_held, flyvars, inputvars>>

\* WindowEvent::RedrawRequested in Application::run
RedrawRequested(result) ==
    /\ steps < MaxSteps
    /\ RedrawHandler(result)
    /\ steps' = steps + 1

ResizedInput == \E new_size \in ResizeSizes : Resized(new_size)
RedrawInput == \E result \in RenderResults : RedrawRequested(result)

\* the frame loop: scrolling moves the camera between resizes and redraws
NextApp ==
    \/ MouseWheelInput
    \/ ResizedInput
    \/ RedrawInput

SpecApp == Init /\ [][NextApp]_vars

(***************************************************************************)
(* The event loop with its scheduling: window.request_redraw() makes winit *)
(* deliver WindowEvent::RedrawRequested, so a pending redraw is delivered  *)
(* eventually. Input events are bounded by MaxSteps, redraws are not.      *)
(***************************************************************************)
\* the event loop delivers a requested redraw
RedrawDelivered ==
    /\ redraw_pending
    /\ \E result \in RenderResults : RedrawHandler(result)
    /\ UNCHANGED steps

\* winit takes the redraw request off the window when it emits
\* RedrawRequested. It is enabled exactly when RedrawDelivered is, and the
\* only steps of NextLive that satisfy it are steps of RedrawDelivered, so
\* weak fairness of the two together is weak fairness of RedrawDelivered;
\* TLC answers ENABLED from this disjunct without computing the uniform.
RedrawTaken ==
    /\ redraw_pending
    /\ ~exited
    /\ redraw_pending' = FALSE
    /\ UNCHANGED <<routervars, calls, hist, steps, surfacevars, framevars,
                   flyvars, inputvars>>

\* one scroll, one motion and one resize stand for the camera mutations
LiveScrollInput ==
    /\ DeviceEvent(MouseWheelEvent("LineDelta", 3))
    /\ UNCHANGED <<button_held, shift_held>>

LiveMotionInput ==
    /\ DeviceEvent(MouseMotionEvent(<<10, 0>>))
    /\ UNCHANGED <<button_held, shift_held>>

LiveResizedInput == Resized(<<800, 600>>)

NextLive ==
    \/ PrimaryButtonInput
    \/ ShiftInput
    \/ LiveScrollInput
    \/ LiveMotionInput
    \/ LiveResizedInput
    \/ RedrawDelivered

SpecLive ==
    Init /\ [][NextLive]_vars /\ WF_vars(RedrawTaken \/ RedrawDelivered)

(***************************************************************************)
(* camera.rs: the fly camera, its key controller and its uniform. Nothing  *)
(* in main.rs constructs them, so the camera and the speed are inputs and  *)
(* every public method is an operation a caller may invoke.                *)
(***************************************************************************)
\* the speed handed to CameraController::new
FlySpeed == 2000
\* the cameras a caller starts with: eye, target, up and the projection
FlyCameras ==
    { [eye |-> eye, target |-> <<0, 0, 0>>, up |-> WorldUp,
       aspect |-> AspectOf(InitialWidth, InitialHeight),
       fovy |-> OrbitFovy, znear |-> OrbitZnear, zfar |-> OrbitZfar] :
         eye \in { <<0, 10000, 20000>>, <<0, 0, 5000>> } }

\* CameraController::new(speed)
FlyControllerNew(speed) ==
    [speed |-> speed,
     is_forward_pressed |-> FALSE,
     is_backward_pressed |-> FALSE,
     is_left_pressed |-> FALSE,
     is_right_pressed |-> FALSE]

FlyKeys == {"ArrowUp", "ArrowDown", "ArrowLeft", "ArrowRight", "Space"}
FlyKeyEvent(logical_key, state) ==
    [type |-> "KeyboardInput", logical_key |-> logical_key, state |-> state]
CursorMovedEvent == [type |-> "CursorMoved"]

\* faulty variant: every key moves forward
fly_process_events_any_key(self, event) ==
    IF event.type = "KeyboardInput"
    THEN [self |-> [self EXCEPT !.is_forward_pressed = (event.state = "Pressed")],
          returned |-> TRUE]
    ELSE [self |-> self, returned |-> FALSE]

\* CameraController::process_events(&mut self, event) -> bool
fly_process_events(self, event) ==
    IF event.type = "KeyboardInput"
    THEN LET is_pressed == event.state = "Pressed"
         IN  CASE event.logical_key = "ArrowUp" ->
                    [self |-> [self EXCEPT !.is_forward_pressed = is_pressed],
                     returned |-> TRUE]
               [] event.logical_key = "ArrowDown" ->
                    [self |-> [self EXCEPT !.is_backward_pressed = is_pressed],
                     returned |-> TRUE]
               [] event.logical_key = "ArrowLeft" ->
                    [self |-> [self EXCEPT !.is_left_pressed = is_pressed],
                     returned |-> TRUE]
               [] event.logical_key = "ArrowRight" ->
                    [self |-> [self EXCEPT !.is_right_pressed = is_pressed],
                     returned |-> TRUE]
               [] OTHER -> [self |-> self, returned |-> FALSE]
    ELSE [self |-> self, returned |-> FALSE]

\* faulty variant: the forward move is not guarded by the distance
fly_update_camera_unguarded(self, cam) ==
    LET forward == VSub(cam.target, cam.eye)
        forward_norm == Normalize(forward)
    IN  IF self.is_forward_pressed
        THEN [cam EXCEPT !.eye = VAdd(cam.eye, VScale(forward_norm, self.speed))]
        ELSE cam

\* CameraController::update_camera(&self, camera: &mut Camera)
fly_update_camera(self, cam) ==
    LET forward == VSub(cam.target, cam.eye)
        forward_norm == Normalize(forward)
        forward_mag == Magnitude(forward)
        eye1 == IF self.is_forward_pressed /\ forward_mag > self.speed
                THEN VAdd(cam.eye, VScale(forward_norm, self.speed))
                ELSE cam.eye
        eye2 == IF self.is_backward_pressed
                THEN VSub(eye1, VScale(forward_norm, self.speed))
                ELSE eye1
        right == Cross(forward_norm, cam.up)
        forward2 == VSub(cam.target, eye2)
        forward_mag2 == Magnitude(forward2)
        eye3 == IF self.is_right_pressed
                THEN VSub(cam.target,
                          VScale(Normalize(VAdd(forward2, VScale(right, self.speed))),
                                 forward_mag2))
                ELSE eye2
        eye4 == IF self.is_left_pressed
                THEN VSub(cam.target,
                          VScale(Normalize(VSub(forward2, VScale(right, self.speed))),
                                 forward_mag2))
                ELSE eye3
    IN  [cam EXCEPT !.eye = eye4]

\* the orbit application is not running in the fly-camera build
NoOrbit == [absent |-> TRUE]

InitFly ==
    /\ fly_camera \in FlyCameras
    /\ fly_controller = FlyControllerNew(FlySpeed)
    /\ camera_uniform = CameraUniformNew
    /\ camera_buffer = CameraUniformNew
    /\ camera_controller = NoOrbit
    /\ camera = NoOrbit
    /\ button_held = FALSE
    /\ shift_held = FALSE
    /\ calls = << >>
    /\ hist = << >>
    /\ steps = 0
    /\ size = InitSize
    /\ config = InitSize
    /\ depth_texture = InitSize
    /\ rendered = None
    /\ redraw_pending = FALSE
    /\ exited = FALSE
    /\ debug = FALSE
    /\ mouse_pressed = FALSE
    /\ window_held = {}

\* what a fly-camera operation leaves alone
flyframe ==
    <<routervars, surfacevars, camera_buffer, rendered, exited, redraw_pending,
      inputvars>>
\* the log of the operations a caller invoked
FlyEntry(op) == [op |-> op]

\* a caller hands a window event to CameraController::process_events
FlyProcessEvents(event) ==
    /\ LET r == fly_process_events(fly_controller, event)
       IN  /\ fly_controller' = r.self
           /\ calls' = << Call("process_events", <<event, r.returned>>) >>
    /\ hist' = Push(hist, FlyEntry("process_events"))
    /\ steps' = steps + 1
    /\ UNCHANGED <<fly_camera, camera_uniform, flyframe>>

FlyKeyInput ==
    /\ steps < MaxSteps
    /\ \E logical_key \in FlyKeys, state \in ElementState :
            FlyProcessEvents(FlyKeyEvent(logical_key, state))

FlyOtherInput ==
    /\ steps < MaxSteps
    /\ FlyProcessEvents(CursorMovedEvent)

\* a caller runs CameraController::update_camera on the camera
FlyUpdateCamera ==
    /\ steps < MaxSteps
    /\ fly_camera' = fly_update_camera(fly_controller, fly_camera)
    /\ calls' = << Call("update_camera", << >>) >>
    /\ hist' = Push(hist, FlyEntry("update_camera"))
    /\ steps' = steps + 1
    /\ UNCHANGED <<fly_controller, camera_uniform, flyframe>>

\* a caller runs CameraUniform::update_view_proj(&camera); the camera is
\* borrowed immutably
FlyUpdateViewProj ==
    /\ steps < MaxSteps
    /\ camera_uniform' = update_view_proj(camera_uniform, fly_camera)
    /\ calls' = << Call("update_view_proj", << >>) >>
    /\ hist' = Push(hist, FlyEntry("update_view_proj"))
    /\ steps' = steps + 1
    /\ UNCHANGED <<fly_camera, fly_controller, flyframe>>

NextFly ==
    \/ FlyKeyInput
    \/ FlyOtherInput
    \/ FlyUpdateCamera
    \/ FlyUpdateViewProj

SpecFly == InitFly /\ [][NextFly]_vars

(***************************************************************************)
(* main.rs: Application::input and the WindowEvent arm of Application::run *)
(* with its guard `!self.input(event)`.                                    *)
(***************************************************************************)
\* a keyboard WindowEvent: logical key, physical key, state, auto-repeat mark
WindowKeyEvent(logical_key, physical_key, state, repeat) ==
    [type |-> "KeyboardInput",
     key |-> [logical_key |-> logical_key, physical_key |-> physical_key,
              state |-> state, repeat |-> repeat]]
MouseInputEvent(button, state) ==
    [type |-> "MouseInput", button |-> button, state |-> state]
ResizedEvent(new_size) == [type |-> "Resized", size |-> new_size]
RedrawRequestedEvent == [type |-> "RedrawRequested"]
CloseRequestedEvent == [type |-> "CloseRequested"]

\* the keys of the window: logical and physical name
WindowKeys ==
    { <<"j", "KeyJ">>, <<"Shift", "ShiftLeft">>, <<"Escape", "Escape">> }
MouseButtons == {"Left", "Right"}
WindowResizes == { <<800, 600>> }
WindowRenderResults == {"Ok", "Lost"}

\* faulty variant: the 'j' arm reports the event as not consumed
input_j_not_consumed(self, event) ==
    IF event.type = "KeyboardInput" /\ event.key.logical_key = "j"
    THEN IF ~event.key.repeat /\ event.key.state = "Pressed"
         THEN [self |-> [self EXCEPT !.debug = ~self.debug],
               returned |-> FALSE,
               calls |-> << Call("request_redraw", << >>) >>]
         ELSE [self |-> self, returned |-> FALSE, calls |-> << >>]
    ELSE IF event.type = "MouseInput" /\ event.button = "Left"
    THEN [self |-> [self EXCEPT !.mouse_pressed = (event.state = "Pressed")],
          returned |-> TRUE, calls |-> << >>]
    ELSE [self |-> self, returned |-> FALSE, calls |-> << >>]

\* Application::input(&mut self, event) -> bool, on debug and mouse_pressed
input(self, event) ==
    IF event.type = "KeyboardInput"
    THEN IF event.key.logical_key = "j"
         THEN IF ~event.key.repeat /\ event.key.state = "Pressed"
              THEN [self |-> [self EXCEPT !.debug = ~self.debug],
                    returned |-> TRUE,
                    calls |-> << Call("request_redraw", << >>) >>]
              ELSE [self |-> self, returned |-> TRUE, calls |-> << >>]
         ELSE [self |-> self, returned |-> FALSE, calls |-> << >>]
    ELSE IF event.type = "MouseInput" /\ event.button = "Left"
    THEN [self |-> [self EXCEPT !.mouse_pressed = (event.state = "Pressed")],
          returned |-> TRUE, calls |-> << >>]
    ELSE [self |-> self, returned |-> FALSE, calls |-> << >>]

\* the arm of `match event` a window event reaches inside the guard
WindowArm(event) ==
    IF event.type = "CloseRequested" THEN "exit"
    ELSE IF event.type = "KeyboardInput"
    THEN IF event.key.logical_key = "Escape" THEN "exit"
         ELSE "process_keyed_events"
    ELSE IF event.type = "Resized" THEN "resize"
    ELSE IF event.type = "RedrawRequested" THEN "redraw"
    ELSE "none"

\* what the handler leaves when no arm runs; render is the result of
\* render(), if it ran
Unforwarded ==
    [camera_controller |-> camera_controller,
     app |-> App,
     frame |-> [camera_uniform |-> camera_uniform, camera_buffer |-> camera_buffer],
     render |-> None,
     exited |-> FALSE,
     calls |-> << >>]

\* the arms of `match event` in Application::run; result is what render()
\* returns in the RedrawRequested arm
Forwarded(arm, event, result) ==
    CASE arm = "exit" ->
            [Unforwarded EXCEPT !.exited = TRUE,
                                !.calls = << Call("exit", << >>) >>]
      [] arm = "process_keyed_events" ->
            [Unforwarded EXCEPT
                !.camera_controller =
                    process_keyed_events(camera_controller, event.key),
                !.calls = << Call("process_keyed_events", << >>) >>]
      [] arm = "resize" ->
            [Unforwarded EXCEPT
                !.app = resize(App, event.size),
                !.calls = << Call("resize", event.size),
                             Call("request_redraw", << >>) >>]
      [] arm = "redraw" ->
            [Unforwarded EXCEPT
                !.frame = update(camera_uniform, camera_buffer, camera),
                !.render = Some(result),
                !.app = IF result = "Lost" THEN resize(App, size) ELSE App,
                !.exited = (result = "OutOfMemory"),
                !.calls = << Call("update", << >>), Call("render", <<result>>) >>
                          \o (IF result = "Lost"
                              THEN << Call("resize", size),
                                      Call("request_redraw", << >>) >>
                              ELSE IF result = "OutOfMemory"
                              THEN << Call("exit", << >>) >>
                              ELSE << >>)]
      [] OTHER -> Unforwarded

\* Event::WindowEvent in Application::run: the guard calls input once; when
\* it returned false the body calls input again and, when that returned
\* false too, matches the event
WindowEvent(event, result) ==
    /\ ~exited
    /\ \E first \in {input([debug |-> debug, mouse_pressed |-> mouse_pressed], event)} :
       \E second \in {IF first.returned THEN None ELSE Some(input(first.self, event))} :
       \E arm \in {IF ~first.returned /\ ~second[1].returned
                   THEN WindowArm(event) ELSE "none"} :
       \E h \in {Forwarded(arm, event, result)} :
       \E cs \in {<< Call("input", <<first.returned>>) >> \o first.calls
                  \o (IF IsSome(second)
                      THEN << Call("input", <<second[1].returned>>) >>
                           \o second[1].calls
                      ELSE << >>)
                  \o h.calls} :
           /\ debug' = IF IsSome(second) THEN second[1].self.debug
                       ELSE first.self.debug
           /\ mouse_pressed' = IF IsSome(second) THEN second[1].self.mouse_pressed
                               ELSE first.self.mouse_pressed
           /\ camera_controller' = h.camera_controller
           /\ size' = h.app.size
           /\ config' = h.app.config
           /\ camera' = h.app.camera
           /\ depth_texture' = h.app.depth_texture
           /\ camera_uniform' = h.frame.camera_uniform
           /\ camera_buffer' = h.frame.camera_buffer
           /\ rendered' = IF h.render = Some("Ok") THEN Some(h.frame.camera_buffer)
                          ELSE rendered
           /\ exited' = h.exited
           /\ calls' = cs
           /\ redraw_pending' = \/ redraw_pending /\ arm # "redraw"
                                \/ RequestsRedraw(cs)
    /\ hist' = Push(hist, Entry(event))
    /\ steps' = steps + 1
    /\ UNCHANGED <<button_held, shift_held, flyvars>>

\* the window reports a key: released only while down, and a press of a key
\* that is down is its auto-repeat
WindowKeyInput ==
    /\ steps < MaxSteps
    /\ \E k \in WindowKeys, state \in ElementState :
        /\ state = "Released" => k[1] \in window_held
        /\ window_held' = IF state = "Pressed" THEN window_held \cup {k[1]}
                          ELSE window_held \ {k[1]}
        /\ WindowEvent(WindowKeyEvent(k[1], k[2], state,
                                      state = "Pressed" /\ k[1] \in window_held),
                       "Ok")

\* a mouse button is pressed while up and released while down
WindowMouseInput ==
    /\ steps < MaxSteps
    /\ \E button \in MouseButtons, state \in ElementState :
        /\ (state = "Released") = (button \in window_held)
        /\ window_held' = IF state = "Pressed" THEN window_held \cup {button}
                          ELSE window_held \ {button}
        /\ WindowEvent(MouseInputEvent(button, state), "Ok")

WindowCloseInput ==
    /\ steps < MaxSteps
    /\ WindowEvent(CloseRequestedEvent, "Ok")
    /\ UNCHANGED window_held

WindowResizedInput ==
    /\ steps < MaxSteps
    /\ \E new_size \in WindowResizes : WindowEvent(ResizedEvent(new_size), "Ok")
    /\ UNCHANGED window_held

WindowRedrawInput ==
    /\ steps < MaxSteps
    /\ \E result \in WindowRenderResults : WindowEvent(RedrawRequestedEvent, result)
    /\ UNCHANGED window_held

NextWindow ==
    \/ WindowKeyInput
    \/ WindowMouseInput
    \/ WindowCloseInput
    \/ WindowResizedInput
    \/ WindowRedrawInput

SpecWindow == Init /\ [][NextWindow]_vars

(***************************************************************************)
(* Vocabulary of the properties.                                           *)
(***************************************************************************)
Ctl == camera_controller
\* the n-th most recent dispatched event (1 = the last), with the flags before it
Recent(n) == hist[Len(hist) + 1 - n]
Seen(n) == Len(hist) >= n
\* a step that dispatches an event, and that event
Dispatched == steps' = steps + 1
Ev == hist'[Len(hist')].event

IsPrimary(e) == e.type = "Button" /\ e.button = PrimaryButton
IsPrimaryState(e, state) == IsPrimary(e) /\ e.state = state
IsWheel(e) == e.type = "MouseWheel"
IsMotion(e) == e.type = "MouseMotion"
IsKey(e) == e.type = "KeyboardInput"
IsShift(e) == IsKey(e) /\ e.key.physical_key = "ShiftLeft"
IsShiftState(e, state) == IsShift(e) /\ e.key.state = state

\* how often a method was called by the last handler
Count(cs, op) == Cardinality({i \in 1..Len(cs) : cs[i].op = op})
Idle(c) == ~c.is_drag_rotate /\ ~c.is_pan
WasIdle(entry) == ~entry.is_drag_rotate /\ ~entry.is_pan

(***************************************************************************)
(* C1: in every state reachable by primary-button and modifier-key press   *)
(* and release events from new(), is_drag_rotate and is_pan are never both *)
(* true.                                                                   *)
(***************************************************************************)
C1_FlagsExclusive == ~(Ctl.is_drag_rotate /\ Ctl.is_pan)

(***************************************************************************)
(* C2: the modifier key always wins: whenever ShiftLeft is held, a motion  *)
(* delta is handled as a pan (pan is called, add_yaw and add_pitch are     *)
(* not), whatever the order in which button and modifier were pressed.     *)
(***************************************************************************)
C2_ModifierWins ==
    (Seen(1) /\ IsMotion(Recent(1).event) /\ shift_held)
        => /\ Count(calls, "pan") = 1
           /\ Count(calls, "add_yaw") = 0
           /\ Count(calls, "add_pitch") = 0

(***************************************************************************)
(* C3: is_pan is pinned by the modifier key: is_pan is true exactly when   *)
(* ShiftLeft is currently held, and a primary-button press or release      *)
(* never changes is_pan.                                                   *)
(***************************************************************************)
C3_PanPinnedByModifier ==
    /\ Ctl.is_pan = shift_held
    /\ (Seen(1) /\ IsPrimary(Recent(1).event)) => Ctl.is_pan = Recent(1).is_pan

(***************************************************************************)
(* C4: with is_pan false, a primary-button press sets is_drag_rotate to    *)
(* true and a release sets it to false; is_pan stays false and the camera  *)
(* is not touched.                                                         *)
(***************************************************************************)
C4_ButtonDrivesRotate ==
    [][ (Dispatched /\ IsPrimary(Ev) /\ ~Ctl.is_pan)
            => /\ Ctl'.is_drag_rotate = (Ev.state = "Pressed")
               /\ ~Ctl'.is_pan
               /\ camera' = camera
               /\ calls' = << >> ]_vars

C4_Witness ==
    /\ Seen(2)
    /\ IsPrimaryState(Recent(2).event, "Pressed") /\ ~Recent(2).is_pan
    /\ IsPrimaryState(Recent(1).event, "Released") /\ ~Recent(1).is_pan
    /\ Recent(1).is_drag_rotate
    /\ ~Ctl.is_drag_rotate

(***************************************************************************)
(* C5: from Idle, a modifier-key press followed by a primary-button press  *)
(* leaves the router in pan mode (is_pan true, is_drag_rotate false); a    *)
(* following motion delta is routed to pan, and a zero delta leaves the    *)
(* target unchanged.                                                       *)
(***************************************************************************)
ShiftThenButton(n) ==
    /\ Seen(n + 1)
    /\ IsShiftState(Recent(n + 1).event, "Pressed") /\ WasIdle(Recent(n + 1))
    /\ IsPrimaryState(Recent(n).event, "Pressed")

C5_ShiftThenButtonPans ==
    [][ /\ (Dispatched /\ Seen(1) /\ IsShiftState(Recent(1).event, "Pressed")
                /\ WasIdle(Recent(1)) /\ IsPrimaryState(Ev, "Pressed"))
            => (Ctl'.is_pan /\ ~Ctl'.is_drag_rotate)
        /\ (Dispatched /\ IsPrimaryState(Ev, "Pressed") /\ Ctl.is_pan)
            => (Ctl'.is_pan /\ Ctl'.is_drag_rotate = Ctl.is_drag_rotate)
        /\ (Dispatched /\ ShiftThenButton(1) /\ IsMotion(Ev))
            => /\ Ctl'.is_pan /\ ~Ctl'.is_drag_rotate
               /\ Count(calls', "pan") = 1
               /\ Count(calls', "add_yaw") = 0
               /\ Count(calls', "add_pitch") = 0
               /\ Ev.motion = <<0, 0>> => camera'.target = camera.target ]_vars

C5_Witness ==
    /\ ShiftThenButton(2)
    /\ IsMotion(Recent(1).event) /\ Recent(1).event.motion = <<0, 0>>
    /\ Ctl.is_pan /\ ~Ctl.is_drag_rotate
    /\ Count(calls, "pan") = 1

(***************************************************************************)
(* C6: process_keyed_events with a ShiftLeft event sets is_pan to true on  *)
(* press and to false on release and leaves is_drag_rotate, rotate_speed,  *)
(* zoom_speed and the camera unchanged; an event for any other key leaves  *)
(* the whole router state unchanged.                                       *)
(***************************************************************************)
C6_KeyEventFrame ==
    [][ (Dispatched /\ IsKey(Ev))
            => /\ camera' = camera
               /\ IF IsShift(Ev)
                  THEN Ctl' = [Ctl EXCEPT !.is_pan = (Ev.key.state = "Pressed")]
                  ELSE Ctl' = Ctl ]_vars

C6_Witness ==
    /\ Seen(2)
    /\ IsShiftState(Recent(2).event, "Pressed") /\ Recent(2).is_drag_rotate
    /\ IsShiftState(Recent(1).event, "Released") /\ Recent(1).is_pan
    /\ Ctl.is_drag_rotate /\ ~Ctl.is_pan

(***************************************************************************)
(* C7: with is_drag_rotate true, a motion delta (dx, dy) calls             *)
(* add_yaw(-dx * rotate_speed) and add_pitch(dy * rotate_speed) exactly    *)
(* once each and neither pan nor add_distance; after a primary-button      *)
(* press from Idle, a motion (dx, 0) decreases yaw by dx * rotate_speed    *)
(* and leaves pitch, distance and target unchanged.                        *)
(***************************************************************************)
C7_RotateOnMotion ==
    [][ /\ (Dispatched /\ IsMotion(Ev) /\ Ctl.is_drag_rotate)
            => /\ Count(calls', "add_yaw") = 1
               /\ Count(calls', "add_pitch") = 1
               /\ Count(calls', "pan") = 0
               /\ Count(calls', "add_distance") = 0
               /\ \E i, j \in 1..Len(calls') :
                    /\ calls'[i] = Call("add_yaw", <<-(Ev.motion[1] * Ctl.rotate_speed)>>)
                    /\ calls'[j] = Call("add_pitch", <<Ev.motion[2] * Ctl.rotate_speed>>)
        /\ (Dispatched /\ IsMotion(Ev) /\ Ev.motion[2] = 0 /\ Seen(1)
                /\ IsPrimaryState(Recent(1).event, "Pressed") /\ WasIdle(Recent(1)))
            => /\ camera'.yaw = camera.yaw - Ev.motion[1] * Ctl.rotate_speed
               /\ camera'.pitch = camera.pitch
               /\ camera'.distance = camera.distance
               /\ camera'.target = camera.target ]_vars

C7_Witness ==
    /\ Seen(2)
    /\ IsPrimaryState(Recent(2).event, "Pressed") /\ WasIdle(Recent(2))
    /\ IsMotion(Recent(1).event) /\ Recent(1).event.motion = <<10, 0>>
    /\ camera.yaw = -250
    /\ Count(calls, "add_yaw") = 1

(***************************************************************************)
(* C8: in the Panning state (is_pan true, is_drag_rotate false) a motion   *)
(* delta (dx, dy) calls pan((dx * rotate_speed, dy * rotate_speed))        *)
(* exactly once and none of add_yaw, add_pitch, add_distance, so yaw,      *)
(* pitch and distance are unchanged.                                       *)
(***************************************************************************)
C8_PanOnMotion ==
    [][ (Dispatched /\ IsMotion(Ev) /\ Ctl.is_pan /\ ~Ctl.is_drag_rotate)
            => /\ Count(calls', "pan") = 1
               /\ \E i \in 1..Len(calls') :
                    calls'[i] = Call("pan", <<Ev.motion[1] * Ctl.rotate_speed,
                                              Ev.motion[2] * Ctl.rotate_speed>>)
               /\ Count(calls', "add_yaw") = 0
               /\ Count(calls', "add_pitch") = 0
               /\ Count(calls', "add_distance") = 0
               /\ camera'.yaw = camera.yaw
               /\ camera'.pitch = camera.pitch
               /\ camera'.distance = camera.distance ]_vars

C8_Witness ==
    /\ Seen(1)
    /\ IsMotion(Recent(1).event) /\ Recent(1).event.motion = <<-3000, 700>>
    /\ Recent(1).is_pan /\ ~Recent(1).is_drag_rotate
    /\ Count(calls, "pan") = 1
    /\ camera.target # <<0, 0, 0>>

(***************************************************************************)
(* C9: in the Idle state a motion delta is ignored: the camera and both    *)
(* flags are unchanged and no redraw is requested.                         *)
(***************************************************************************)
C9_IdleMotionIgnored ==
    [][ (Dispatched /\ IsMotion(Ev) /\ Idle(Ctl))
            => /\ camera' = camera
               /\ Ctl' = Ctl
               /\ calls' = << >> ]_vars

C9_Witness ==
    /\ Seen(1)
    /\ IsMotion(Recent(1).event) /\ Recent(1).event.motion # <<0, 0>>
    /\ WasIdle(Recent(1))
    /\ calls = << >>

(***************************************************************************)
(* C10: in any router state a scroll delta s (line or pixel) calls         *)
(* add_distance(-s * zoom_speed) exactly once, leaves is_drag_rotate,      *)
(* is_pan, yaw, pitch and target unchanged and requests a redraw; a        *)
(* positive scroll decreases distance by s * zoom_speed, subject to        *)
(* clamping at the minimum distance.                                       *)
(***************************************************************************)
C10_ScrollZooms ==
    [][ (Dispatched /\ IsWheel(Ev))
            => LET s == Ev.delta.scroll
               IN  /\ Count(calls', "add_distance") = 1
                   /\ calls'[1] = Call("add_distance", <<-(s * Ctl.zoom_speed)>>)
                   /\ Count(calls', "request_redraw") = 1
                   /\ Ctl' = Ctl
                   /\ camera'.yaw = camera.yaw
                   /\ camera'.pitch = camera.pitch
                   /\ camera'.target = camera.target
                   /\ camera'.distance =
                        Max2(camera.distance - s * Ctl.zoom_speed, MinDistance)
                   /\ s > 0 => camera'.distance < camera.distance
                                 \/ camera.distance = MinDistance ]_vars

C10_Witness ==
    /\ Seen(2)
    /\ IsWheel(Recent(2).event) /\ Recent(2).event.delta.scroll = 3
    /\ IsWheel(Recent(1).event) /\ Recent(1).event.delta.scroll = 50
    /\ Recent(1).is_drag_rotate /\ Recent(1).is_pan
    /\ camera.distance = MinDistance
    /\ Count(calls, "add_distance") = 1 /\ Count(calls, "request_redraw") = 1

(***************************************************************************)
(* C11: every RedrawRequested runs update() and then render(), each        *)
(* exactly once, so that at the render the uploaded uniform is the         *)
(* projection of the camera as all earlier events left it, and a frame     *)
(* that is drawn is drawn with that uniform.                               *)
(***************************************************************************)
IsRedraw(e) == e.type = "RedrawRequested"
IsResized(e) == e.type = "Resized"
\* the uniform of a camera: eye and view-projection matrix
UniformOf(cam) == orbit_update_view_proj(CameraUniformNew, cam)

C11_FrameUsesFreshUniform ==
    [][ (Dispatched /\ IsRedraw(Ev))
            => /\ Len(calls') >= 2
               /\ calls'[1].op = "update" /\ calls'[2].op = "render"
               /\ Count(calls', "update") = 1 /\ Count(calls', "render") = 1
               /\ camera_uniform' = UniformOf(camera)
               /\ camera_buffer' = UniformOf(camera)
               /\ rendered' = IF calls'[2].args = <<"Ok">>
                              THEN Some(UniformOf(camera)) ELSE rendered ]_vars

C11_Witness ==
    /\ Seen(2)
    /\ IsWheel(Recent(2).event) /\ IsRedraw(Recent(1).event)
    /\ camera.distance # InitialDistance
    /\ calls = << Call("update", <<>>), Call("render", <<"Ok">>) >>
    /\ camera_buffer = UniformOf(camera)
    /\ camera_buffer # UniformOf(InitCamera)
    /\ rendered = Some(camera_buffer)

(***************************************************************************)
(* C12: the aspect of the camera is strictly positive in every state, also *)
(* after Resized events with a width or a height of 0.                     *)
(***************************************************************************)
C12_AspectPositive == camera.aspect > 0

(***************************************************************************)
(* C13: a Resized event of height 0 leaves the aspect (and the rest of the *)
(* camera) as it was, whatever the width.                                  *)
(***************************************************************************)
C13_ZeroHeightKeepsAspect ==
    [][ (Dispatched /\ IsResized(Ev) /\ Ev.size[2] = 0)
            => /\ camera'.aspect = camera.aspect
               /\ camera' = camera ]_vars

C13_Witness ==
    /\ Seen(2)
    /\ Recent(2).event = [type |-> "Resized", size |-> <<800, 600>>]
    /\ Recent(1).event = [type |-> "Resized", size |-> <<800, 0>>]
    /\ camera.aspect = AspectOf(800, 600)
    /\ camera.aspect # InitCamera.aspect

(***************************************************************************)
(* C14: for any sequence of scroll events in any router state the camera   *)
(* distance lies within the configured bounds: with initial distance 2.0,  *)
(* min_distance 1.1 and no maximum, distance >= 1.1 in every reachable     *)
(* state, and a large zoom-in (-5.0) from the initial state lands exactly  *)
(* on 1.1.                                                                 *)
(***************************************************************************)
C14_DistanceInBounds ==
    /\ camera.distance >= MinDistance
    /\ camera.bounds.min_distance = Some(MinDistance)
    /\ camera.bounds.max_distance = None
    /\ (steps = 1 /\ IsWheel(Recent(1).event) /\ Recent(1).event.delta.scroll = 50)
        => camera.distance = MinDistance

C14_Witness ==
    /\ steps = 1
    /\ IsWheel(Recent(1).event) /\ Recent(1).event.delta.scroll = 50
    /\ camera.distance = MinDistance

(***************************************************************************)
(* C15: for any sequence of rotate-drag motions, with no pitch bounds      *)
(* configured, the pitch stays strictly inside (-pi/2, pi/2), while yaw    *)
(* is never clamped: each rotate motion adds exactly -dx * rotate_speed.   *)
(***************************************************************************)
PitchInside(cam) == -HalfPi < cam.pitch /\ cam.pitch < HalfPi

C15_PitchInsideYawFree ==
    /\ PitchInside(camera)
    /\ [][ /\ PitchInside(camera')
           /\ camera'.bounds = camera.bounds
           /\ camera.bounds.min_pitch = None /\ camera.bounds.max_pitch = None
           /\ (Dispatched /\ IsMotion(Ev) /\ Ctl.is_drag_rotate)
                => camera'.yaw = camera.yaw - Ev.motion[1] * Ctl.rotate_speed ]_vars

C15_Witness ==
    /\ Seen(2)
    /\ IsMotion(Recent(1).event) /\ Recent(1).is_drag_rotate
    /\ IsMotion(Recent(2).event) /\ Recent(2).is_drag_rotate
    /\ camera.pitch = HalfPi - PitchEps
    /\ camera.yaw > 2 * Pi

(***************************************************************************)
(* C16: a device event that is neither a primary-button event, a mouse     *)
(* wheel nor a mouse motion (among them a press or release of another      *)
(* button) is ignored by process_events: both flags and the camera are     *)
(* unchanged and no redraw is requested.                                   *)
(***************************************************************************)
IsDeviceEvent(e) == e.type \in {"Button", "MouseWheel", "MouseMotion", "Added"}
Recognized(e) == IsPrimary(e) \/ IsWheel(e) \/ IsMotion(e)

C16_UnrecognizedIgnored ==
    [][ (Dispatched /\ IsDeviceEvent(Ev) /\ ~Recognized(Ev))
            => /\ Ctl' = Ctl
               /\ camera' = camera
               /\ calls' = << >> ]_vars

C16_Witness ==
    /\ Seen(2)
    /\ Recent(2).event = ButtonEvent(OtherButton, "Pressed")
    /\ Recent(1).event.type = "Added"
    /\ WasIdle(Recent(2)) /\ Idle(Ctl)
    /\ calls = << >>

(***************************************************************************)
(* C17: update_view_proj (and build_view_projection_matrix inside it)      *)
(* leaves every field of the camera as it was, and a call that follows an  *)
(* earlier call with no mutation of the camera in between writes the same  *)
(* matrix and the same uniform contents again.                             *)
(***************************************************************************)
IsOp(entry, op) == entry.op = op
Invoked(op) == Dispatched /\ IsOp(hist'[Len(hist')], op)
\* the n-th most recent operation was update_view_proj and the camera was
\* not mutated since
NoMutationSince(n) ==
    /\ Seen(n)
    /\ IsOp(Recent(n), "update_view_proj")
    /\ \A m \in 1..(n - 1) : IsOp(Recent(m), "process_events")

C17_UpdateViewProjPure ==
    [][ Invoked("update_view_proj")
            => /\ fly_camera' = fly_camera
               /\ (\E n \in 1..HistLen : NoMutationSince(n))
                    => /\ camera_uniform'.view_proj = camera_uniform.view_proj
                       /\ camera_uniform' = camera_uniform ]_vars

C17_Witness ==
    /\ Seen(3)
    /\ IsOp(Recent(3), "update_view_proj")
    /\ IsOp(Recent(2), "process_events")
    /\ IsOp(Recent(1), "update_view_proj")
    /\ fly_camera \in FlyCameras
    /\ camera_uniform.view_proj = build_view_projection_matrix(fly_camera)
    /\ camera_uniform.view_proj # Identity4

(***************************************************************************)
(* C18: the uniform is constructed with the identity as view_proj, and     *)
(* every update_view_proj writes both fields from the camera alone:        *)
(* view_position is the eye with w = 1 and view_proj is the camera's       *)
(* view-projection matrix, whatever the uniform held before.               *)
(***************************************************************************)
C18_UniformOverwritten ==
    /\ camera_uniform.view_proj = Identity4
    /\ [][ Invoked("update_view_proj")
            => /\ camera_uniform'.view_position =
                    <<fly_camera.eye[1], fly_camera.eye[2], fly_camera.eye[3],
                      FixedOne>>
               /\ camera_uniform'.view_proj =
                    build_view_projection_matrix(fly_camera) ]_vars

C18_Witness ==
    /\ Seen(3)
    /\ IsOp(Recent(3), "update_view_proj")
    /\ IsOp(Recent(2), "update_camera")
    /\ IsOp(Recent(1), "update_view_proj")
    /\ fly_camera \notin FlyCameras
    /\ camera_uniform.view_position[4] = FixedOne
    /\ camera_uniform.view_position = ToHomogeneous(fly_camera.eye)
    /\ camera_uniform.view_proj = build_view_projection_matrix(fly_camera)

(***************************************************************************)
(* C19: is_drag_rotate is true only while the primary button is held: in   *)
(* every state where the primary button is released is_drag_rotate is      *)
(* false, and once both the button and the modifier key are released the   *)
(* router is Idle.                                                         *)
(***************************************************************************)
C19_RotateOnlyWhileHeld ==
    /\ ~button_held => ~Ctl.is_drag_rotate
    /\ (~button_held /\ ~shift_held) => Idle(Ctl)

(***************************************************************************)
(* C20: process_events requests a redraw if and only if it invoked a       *)
(* camera mutator during that event: always for a scroll, for a motion     *)
(* exactly when is_drag_rotate or is_pan is true, never for a button event *)
(* or an ignored event.                                                    *)
(***************************************************************************)
Mutators == {"add_distance", "add_yaw", "add_pitch", "pan"}
Mutated(cs) == \E i \in 1..Len(cs) : cs[i].op \in Mutators
Redraws(cs) == Count(cs, "request_redraw") >= 1

C20_RedrawIffMutated ==
    Seen(1) =>
        LET e == Recent(1).event
        IN  /\ Redraws(calls) <=> Mutated(calls)
            /\ IsDeviceEvent(e) =>
                 Redraws(calls) <=>
                    \/ IsWheel(e)
                    \/ IsMotion(e) /\ (Recent(1).is_drag_rotate \/ Recent(1).is_pan)

C20_Witness ==
    /\ Seen(3)
    /\ IsMotion(Recent(3).event) /\ WasIdle(Recent(3))
    /\ IsShiftState(Recent(2).event, "Pressed")
    /\ IsMotion(Recent(1).event) /\ Recent(1).is_pan /\ ~Recent(1).is_drag_rotate
    /\ Redraws(calls) /\ Mutated(calls)

(***************************************************************************)
(* C23: the stored size always equals the configured width and height and  *)
(* both sides are positive; a resize with a width or a height of 0 leaves  *)
(* size and configuration as they were and still requests a redraw.        *)
(***************************************************************************)
ZeroSided(sz) == sz[1] = 0 \/ sz[2] = 0

C23_SizeMatchesConfig ==
    /\ [](size = config /\ size[1] > 0 /\ size[2] > 0)
    /\ [][ (Dispatched /\ IsResized(Ev) /\ ZeroSided(Ev.size))
            => /\ size' = size
               /\ config' = config
               /\ Redraws(calls')
               /\ redraw_pending' ]_vars

C23_Witness ==
    /\ Seen(2)
    /\ Recent(2).event = [type |-> "Resized", size |-> <<800, 600>>]
    /\ Recent(1).event = [type |-> "Resized", size |-> <<0, 600>>]
    /\ size = <<800, 600>> /\ config = size
    /\ Redraws(calls) /\ redraw_pending

(***************************************************************************)
(* C24: in the RedrawRequested handler update() has run before the result  *)
(* of render() is matched; Lost calls resize with the unchanged current    *)
(* size, OutOfMemory exits the event loop, any other error leaves the loop *)
(* running, and in every case the camera and the router flags are as they  *)
(* were before the event.                                                  *)
(***************************************************************************)
RenderResult(cs) == cs[2].args[1]

C24_RenderErrorPaths ==
    [][ (Dispatched /\ IsRedraw(Ev) /\ RenderResult(calls') # "Ok")
            => /\ calls'[1].op = "update"
               /\ camera_buffer' = UniformOf(camera)
               /\ camera_controller' = camera_controller
               /\ camera' = camera
               /\ size' = size /\ config' = config
               /\ exited' = (RenderResult(calls') = "OutOfMemory")
               /\ (Count(calls', "exit") = 1) = (RenderResult(calls') = "OutOfMemory")
               /\ (Count(calls', "resize") = 1) = (RenderResult(calls') = "Lost")
               /\ RenderResult(calls') = "Lost"
                    => calls'[3] = Call("resize", size) ]_vars

(***************************************************************************)
(* C25: the fly-camera process_events returns true exactly for a keyboard  *)
(* event of ArrowUp, ArrowDown, ArrowLeft or ArrowRight; it then writes    *)
(* whether the key is pressed into that key's flag and leaves the other    *)
(* flags and speed alone; every other event returns false and changes      *)
(* nothing. No other operation writes the flags, so each flag holds the    *)
(* last reported state of its key.                                         *)
(***************************************************************************)
ArrowKeys == {"ArrowUp", "ArrowDown", "ArrowLeft", "ArrowRight"}
IsArrow(e) == e.type = "KeyboardInput" /\ e.logical_key \in ArrowKeys
FlagOf(logical_key) ==
    CASE logical_key = "ArrowUp" -> "is_forward_pressed"
      [] logical_key = "ArrowDown" -> "is_backward_pressed"
      [] logical_key = "ArrowLeft" -> "is_left_pressed"
      [] logical_key = "ArrowRight" -> "is_right_pressed"
\* the event handed to the last process_events and what it returned
Handed(cs) == cs[1].args[1]
Returned(cs) == cs[1].args[2]

C25_ArrowKeysSetFlags ==
    [][ /\ Invoked("process_events")
            => /\ Returned(calls') = IsArrow(Handed(calls'))
               /\ fly_controller'.speed = fly_controller.speed
               /\ IsArrow(Handed(calls'))
                    => fly_controller' =
                         [fly_controller EXCEPT
                            ![FlagOf(Handed(calls').logical_key)] =
                                (Handed(calls').state = "Pressed")]
               /\ ~IsArrow(Handed(calls')) => fly_controller' = fly_controller
               /\ fly_camera' = fly_camera
               /\ camera_uniform' = camera_uniform
        /\ ~Invoked("process_events") => fly_controller' = fly_controller ]_vars

C25_Witness ==
    /\ Seen(3)
    /\ \A n \in 1..3 : IsOp(Recent(n), "process_events")
    /\ fly_controller.is_forward_pressed /\ ~fly_controller.is_backward_pressed
    /\ ~fly_controller.is_left_pressed /\ ~fly_controller.is_right_pressed
    /\ Handed(calls) = FlyKeyEvent("ArrowRight", "Released")
    /\ Returned(calls)

(***************************************************************************)
(* C26: with only the forward key pressed, update_camera moves the eye     *)
(* towards the target only while the distance from eye to target is        *)
(* greater than speed: an applied step shortens the distance by speed      *)
(* (exactly where the direction is an axis, to the last digit of the       *)
(* arithmetic elsewhere), the eye stays on its side of the target at a     *)
(* positive distance, and at a distance of speed or less the camera is     *)
(* left where it is.                                                       *)
(***************************************************************************)
Distance(cam) == Magnitude(VSub(cam.target, cam.eye))
OnlyForward(c) ==
    /\ c.is_forward_pressed /\ ~c.is_backward_pressed
    /\ ~c.is_left_pressed /\ ~c.is_right_pressed
OnAxis(cam) ==
    Cardinality({i \in 1..3 : cam.eye[i] # cam.target[i]}) = 1

C26_ForwardStopsBeforeTarget ==
    [][ (Invoked("update_camera") /\ OnlyForward(fly_controller)
            /\ Distance(fly_camera) > 0)
            => /\ Distance(fly_camera') > 0
               /\ Dot(VSub(fly_camera.target, fly_camera'.eye),
                      VSub(fly_camera.target, fly_camera.eye)) > 0
               /\ Distance(fly_camera) <= fly_controller.speed
                    => fly_camera' = fly_camera
               /\ Distance(fly_camera) > fly_controller.speed
                    => /\ Abs(Distance(fly_camera) - fly_controller.speed
                              - Distance(fly_camera')) <= 2
                       /\ OnAxis(fly_camera)
                            => Distance(fly_camera') =
                                 Distance(fly_camera) - fly_controller.speed
               /\ [fly_camera' EXCEPT !.eye = fly_camera.eye] = fly_camera ]_vars

C26_Witness ==
    /\ Seen(3)
    /\ \A n \in 1..3 : IsOp(Recent(n), "update_camera")
    /\ OnlyForward(fly_controller)
    /\ fly_camera.eye = <<0, 0, 1000>>
    /\ Distance(fly_camera) <= fly_controller.speed

(***************************************************************************)
(* C22: each window event takes effect in Application::input at most once: *)
(* a non-repeat press of 'j' flips debug exactly once and requests a       *)
(* redraw, a repeat or release of 'j' and every other event leave debug    *)
(* unchanged, and an event input consumes (any 'j' key event, any left     *)
(* MouseInput) sees input invoked once and reaches none of                 *)
(* process_keyed_events, resize, exit, update or render, while an event    *)
(* input does not consume sees input invoked twice without effect.         *)
(***************************************************************************)
IsJ(e) == e.type = "KeyboardInput" /\ e.key.logical_key = "j"
IsJPress(e) == IsJ(e) /\ ~e.key.repeat /\ e.key.state = "Pressed"
IsLeftMouse(e) == e.type = "MouseInput" /\ e.button = "Left"
Consumed(e) == IsJ(e) \/ IsLeftMouse(e)
ForwardOps == {"process_keyed_events", "resize", "exit", "update", "render"}

C22_InputAppliedOnce ==
    [][ Dispatched
            => /\ IsJPress(Ev)
                    => /\ debug' = ~debug
                       /\ Count(calls', "request_redraw") = 1
                       /\ redraw_pending'
               /\ ~IsJPress(Ev) => debug' = debug
               /\ IsLeftMouse(Ev) => mouse_pressed' = (Ev.state = "Pressed")
               /\ Consumed(Ev)
                    => /\ Count(calls', "input") = 1
                       /\ \A i \in 1..Len(calls') : calls'[i].op \notin ForwardOps
                       /\ camera_controller' = camera_controller
                       /\ camera' = camera
                       /\ size' = size /\ config' = config
                       /\ camera_uniform' = camera_uniform
                       /\ camera_buffer' = camera_buffer
                       /\ rendered' = rendered
                       /\ exited' = exited
               /\ ~Consumed(Ev)
                    => /\ Count(calls', "input") = 2
                       /\ calls'[1] = Call("input", <<FALSE>>)
                       /\ calls'[2] = Call("input", <<FALSE>>)
                       /\ mouse_pressed' = mouse_pressed ]_vars

C22_Witness ==
    /\ Seen(3)
    /\ IsJPress(Recent(3).event)
    /\ Recent(2).event = WindowKeyEvent("Shift", "ShiftLeft", "Pressed", FALSE)
    /\ IsJ(Recent(1).event) /\ Recent(1).event.key.repeat
    /\ debug
    /\ calls = << Call("input", <<TRUE>>) >>
    /\ redraw_pending

(***************************************************************************)
(* C21: every event that mutates the camera (a scroll, a motion while      *)
(* rotating or panning, a resize) is eventually followed by a frame drawn  *)
(* from an uploaded uniform that reflects the mutation, when every         *)
(* requested redraw is eventually delivered as RedrawRequested.            *)
(***************************************************************************)
\* the last event dispatched mutated the camera and requested a redraw
IsMutation(entry) ==
    \/ entry.event.type = "MouseWheel"
    \/ entry.event.type = "Resized"
    \/ entry.event.type = "MouseMotion" /\ ~WasIdle(entry)
MutationPending == Seen(1) /\ IsMutation(Recent(1)) /\ Redraws(calls)
\* the last frame drawn used the uniform of the camera as it is now
FrameShown == rendered = Some(UniformOf(camera))

C21_MutationEventuallyShown == MutationPending ~> FrameShown

====
